---- MODULE Spec2Model ----
(***************************************************************************)
(* Smart-Trader: the horizon-aware debate (core/debate.py), the position   *)
(* ledger (core/positions.py) and the autonomous decision cycle            *)
(* (autonomous_runner.py).                                                 *)
(*                                                                         *)
(* Fixed point: weights and vote confidences are hundredths (0.40 = 40,    *)
(* 0.9 = 90), signed scores and thresholds are ten-thousandths             *)
(* (0.36 = 3600), a Decision's confidence is thousandths (round(x, 3)).    *)
(***************************************************************************)
EXTENDS Integers, Sequences, FiniteSets, TLC

VARIABLES
    enter_th,   \* Debate.enter_th
    exit_th,    \* Debate.exit_th
    weights,    \* Debate.weights
    votes,      \* the argument of the horizon_decide call under study
    decision,   \* what that call returned, NoDecision before the call
    now,        \* datetime.now(timezone.utc), in minutes
    ticks,      \* how often the clock has advanced
    ledger,     \* state/positions.json: symbol -> row
    run_log,    \* state/auto_runs.jsonl, oldest line first
    broker,     \* quantity held at the broker, by broker symbol
    orders,     \* the buy orders the broker has accepted, oldest first
    exits,      \* the close_position calls made, oldest first
    cyc,        \* per thread: the run_once call in flight, or the last one
    started,    \* number of run_once calls made
    faults,     \* number of external calls that have failed
    overlap     \* whether run_once calls of different threads may overlap

dvars == <<enter_th, exit_th, weights, votes, decision>>

cvars == <<now, ticks, ledger, run_log, broker, orders, exits, cyc, started, faults, overlap>>

vars == <<enter_th, exit_th, weights, votes, decision,
          now, ticks, ledger, run_log, broker, orders, exits, cyc, started, faults,
          overlap>>

None == "None"

\* ------------------------------------------------------------------------
\* core/debate.py
\* ------------------------------------------------------------------------

\* the key order of the scores dict {"short":..., "mid":..., "long":...}
HorizonOrder == <<"short", "mid", "long">>

Horizons == {"short", "mid", "long"}

Agents == {"ShortTerm", "MidTerm", "LongTerm"}

Sides == {"BUY", "SELL", "HOLD"}

horizon_map(agent) ==
    CASE agent = "ShortTerm" -> "short"
      [] agent = "MidTerm"   -> "mid"
      [] agent = "LongTerm"  -> "long"
      [] OTHER               -> None

DefaultWeights == [h \in Horizons |->
    CASE h = "short" -> 40 [] h = "mid" -> 35 [] h = "long" -> 25]

\* a HOLD vote counted as a SELL vote
side_factor_two_way(side) ==
    IF side = "BUY" THEN 1 ELSE -1

side_factor(side) ==
    IF side = "BUY" THEN 1 ELSE (IF side = "SELL" THEN -1 ELSE 0)

Abs(x) == IF x < 0 THEN -x ELSE x

Max2(a, b) == IF a >= b THEN a ELSE b

Min2(a, b) == IF a <= b THEN a ELSE b

\* round(x, 2) in place of round(x, 3)
Round2(x) ==
    LET q == x \div 100
        r == x % 100
    IN  10 * (IF r > 50 \/ (r = 50 /\ q % 2 = 1) THEN q + 1 ELSE q)

\* round(x, 3) of a non-negative value held in ten-thousandths, as thousandths
\* (ties to even)
Round3(x) ==
    LET q == x \div 10
        r == x % 10
    IN  IF r > 5 \/ (r = 5 /\ q % 2 = 1) THEN q + 1 ELSE q

ZeroScores == [h \in Horizons |-> 0]

\* the loop over the votes: scores[h] += weights[h] * conf * side_factor
RECURSIVE AddVotes(_, _, _)
AddVotes(vs, w, scores) ==
    IF vs = <<>> THEN scores
    ELSE LET v == Head(vs)
             h == horizon_map(v.agent)
         IN  IF h = None
             THEN AddVotes(Tail(vs), w, scores)
             ELSE AddVotes(Tail(vs), w,
                     [scores EXCEPT ![h] = @ + w[h] * v.confidence * side_factor(v.decision)])

Scores(vs, w) == AddVotes(vs, w, ZeroScores)

net_score(scores) == scores["short"] + scores["mid"] + scores["long"]

\* max(scores.items(), key=kv[1]): the first key, in dict order, of the largest value
RECURSIVE ArgBest(_, _, _)
ArgBest(scores, i, cur) ==
    IF i > Len(HorizonOrder) THEN cur
    ELSE ArgBest(scores, i + 1,
                 IF scores[HorizonOrder[i]] > scores[cur] THEN HorizonOrder[i] ELSE cur)

\* the last key of the largest value instead of the first
best_h_last(scores) ==
    LET top == CHOOSE x \in {scores[h] : h \in Horizons} :
                   \A h \in Horizons : scores[h] <= x
    IN  IF scores["long"] = top THEN "long"
        ELSE IF scores["mid"] = top THEN "mid" ELSE "short"

best_h(scores) == ArgBest(scores, 2, HorizonOrder[1])

\* min(scores.items(), key=kv[1]): the first key, in dict order, of the smallest value
RECURSIVE ArgWorst(_, _, _)
ArgWorst(scores, i, cur) ==
    IF i > Len(HorizonOrder) THEN cur
    ELSE ArgWorst(scores, i + 1,
                  IF scores[HorizonOrder[i]] < scores[cur] THEN HorizonOrder[i] ELSE cur)

worst_h(scores) == ArgWorst(scores, 2, HorizonOrder[1])

MkDecision(action, target, conf, scores) ==
    [action |-> action, target_horizon |-> target, confidence |-> conf, scores |-> scores]

\* no Decision yet (before the call returns)
NoDecision == MkDecision(None, None, 0, ZeroScores)

\* horizon_decide without the two tests of the net score
DecidePerHorizonOnly(scores, enter, exit) ==
    LET bh    == best_h(scores)
        wh    == worst_h(scores)
        best  == scores[bh]
        worst == scores[wh]
    IN  IF best >= enter
        THEN MkDecision("BUY", bh, Round3(best), scores)
        ELSE IF Abs(worst) >= exit
        THEN MkDecision("SELL", wh, Round3(Abs(worst)), scores)
        ELSE MkDecision("HOLD", None, Round3(Max2(Abs(best), Abs(worst))), scores)

\* horizon_decide with the exit tests made against the enter threshold
DecideExitAtEnter(scores, enter, exit) ==
    LET net   == net_score(scores)
        bh    == best_h(scores)
        wh    == worst_h(scores)
        best  == scores[bh]
        worst == scores[wh]
    IN  IF net >= enter
        THEN MkDecision("BUY", bh, Round3(net), scores)
        ELSE IF net <= -enter
        THEN MkDecision("SELL", wh, Round3(Abs(net)), scores)
        ELSE IF best >= enter
        THEN MkDecision("BUY", bh, Round3(best), scores)
        ELSE IF Abs(worst) >= enter
        THEN MkDecision("SELL", wh, Round3(Abs(worst)), scores)
        ELSE MkDecision("HOLD", None, Round3(Max2(Abs(best), Abs(worst))), scores)

\* horizon_decide with > in place of >= in the enter tests
DecideStrictEnter(scores, enter, exit) ==
    LET net   == net_score(scores)
        bh    == best_h(scores)
        wh    == worst_h(scores)
        best  == scores[bh]
        worst == scores[wh]
    IN  IF net > enter
        THEN MkDecision("BUY", bh, Round3(net), scores)
        ELSE IF net <= -exit
        THEN MkDecision("SELL", wh, Round3(Abs(net)), scores)
        ELSE IF best > enter
        THEN MkDecision("BUY", bh, Round3(best), scores)
        ELSE IF Abs(worst) >= exit
        THEN MkDecision("SELL", wh, Round3(Abs(worst)), scores)
        ELSE MkDecision("HOLD", None, Round3(Max2(Abs(best), Abs(worst))), scores)

\* the four tests of horizon_decide, in the order of the code
\* horizon_decide with a HOLD that keeps the best horizon as its target
DecideHoldKeepsHorizon(scores, enter, exit) ==
    LET net   == net_score(scores)
        bh    == best_h(scores)
        wh    == worst_h(scores)
        best  == scores[bh]
        worst == scores[wh]
    IN  IF net >= enter
        THEN MkDecision("BUY", bh, Round3(net), scores)
        ELSE IF net <= -exit
        THEN MkDecision("SELL", wh, Round3(Abs(net)), scores)
        ELSE IF best >= enter
        THEN MkDecision("BUY", bh, Round3(best), scores)
        ELSE IF Abs(worst) >= exit
        THEN MkDecision("SELL", wh, Round3(Abs(worst)), scores)
        ELSE MkDecision("HOLD", bh, Round3(Max2(Abs(best), Abs(worst))), scores)

Decide(scores, enter, exit) ==
    LET net   == net_score(scores)
        bh    == best_h(scores)
        wh    == worst_h(scores)
        best  == scores[bh]
        worst == scores[wh]
    IN  IF net >= enter
        THEN MkDecision("BUY", bh, Round3(net), scores)
        ELSE IF net <= -exit
        THEN MkDecision("SELL", wh, Round3(Abs(net)), scores)
        ELSE IF best >= enter
        THEN MkDecision("BUY", bh, Round3(best), scores)
        ELSE IF Abs(worst) >= exit
        THEN MkDecision("SELL", wh, Round3(Abs(worst)), scores)
        ELSE MkDecision("HOLD", None, Round3(Max2(Abs(best), Abs(worst))), scores)

horizon_decide(vs) == Decide(Scores(vs, weights), enter_th, exit_th)

\* ------------------------------------------------------------------------
\* config.py (Settings). Percentages are hundredths, share counts are shares.
\* ------------------------------------------------------------------------

mean_confidence_to_act == 2500

exit_confidence_to_act == 2500

CASH_FLOOR_PCT == 40

PER_SYMBOL_EXPOSURE_CAP_PCT == 7

HORIZON_TRADE_CAP_PCT == [h \in Horizons |->
    CASE h = "short" -> 3 [] h = "mid" -> 5 [] h = "long" -> 8]

MAX_SHARES_PER_BUY == 5

MAX_SHARES_PER_SYMBOL == 20

DAILY_BUY_LIMIT_PER_SYMBOL == 2

REBUY_COOLDOWN_MINUTES == 60

\* ------------------------------------------------------------------------
\* Units of the cycle: money is whole dollars, a quantity is hundredths of a
\* share, a time is minutes (a UTC day starts at every multiple of 1440).
\* ------------------------------------------------------------------------

Shares(n) == 100 * n

Pct(p, x) == (p * x) \div 100

\* qty * price, in dollars
Notional(qty, price) == (qty * price) \div 100

\* notional / price, as a quantity
QtyFor(notional, price) == (100 * notional) \div price

DayOf(t) == t \div 1440

Min3(a, b, c) == Min2(a, Min2(b, c))

\* ------------------------------------------------------------------------
\* core/policy.py as imported by autonomous_runner.py: compute_allowed_notional,
\* clamp_qty_by_share_caps, hit_daily_buy_limit, too_soon_since_last_buy
\* ------------------------------------------------------------------------

compute_allowed_notional(horizon, cash, equity, symbol_mv) ==
    Max2(0, Min3(cash - Pct(CASH_FLOOR_PCT, equity),
                 Pct(HORIZON_TRADE_CAP_PCT[horizon], equity),
                 Pct(PER_SYMBOL_EXPOSURE_CAP_PCT, equity) - symbol_mv))

clamp_qty_by_share_caps(desired_qty, held_qty) ==
    Max2(0, Min3(desired_qty,
                 Shares(MAX_SHARES_PER_BUY),
                 Shares(MAX_SHARES_PER_SYMBOL) - held_qty))

\* runs: the symbol's records, newest first
hit_daily_buy_limit(runs, t) ==
    Cardinality({i \in 1..Len(runs) :
                    runs[i].action = "BUY" /\ DayOf(runs[i].when) = DayOf(t)})
        >= DAILY_BUY_LIMIT_PER_SYMBOL

too_soon_since_last_buy(runs, t) ==
    LET buys == {i \in 1..Len(runs) : runs[i].action = "BUY"}
    IN  /\ buys # {}
        /\ LET latest == CHOOSE i \in buys : \A j \in buys : i <= j
           IN  t - runs[latest].when < REBUY_COOLDOWN_MINUTES

\* ------------------------------------------------------------------------
\* core/trader.py
\* ------------------------------------------------------------------------

Symbols == {"AAPL", "BTC/USD"}

\* the order in which a ledger's keys are visited
SymbolOrder == <<"AAPL", "BTC/USD">>

_to_broker_symbol(sym) == IF sym = "BTC/USD" THEN "BTCUSD" ELSE sym

BrokerSymbols == {_to_broker_symbol(s) : s \in Symbols}

position_qty(sym) == broker[_to_broker_symbol(sym)]

\* ------------------------------------------------------------------------
\* core/positions.py
\* ------------------------------------------------------------------------

\* a long horizon of 90 days
HORIZON_TIMEBOX_quarter == [h \in Horizons |->
    CASE h = "short" -> 1440 [] h = "mid" -> 7 * 1440 [] h = "long" -> 90 * 1440]

HORIZON_TIMEBOX == [h \in Horizons |->
    CASE h = "short" -> 1440 [] h = "mid" -> 7 * 1440 [] h = "long" -> 60 * 1440]

\* a symbol that is not a key of the ledger
NoRow == [horizon |-> None, qty |-> 0, entry_price |-> [num |-> 0, den |-> 1],
          notional |-> 0, entered_at |-> 0, timebox_until |-> 0]

Row(horizon, qty, price, notional, entered_at, timebox_until) ==
    [horizon |-> horizon, qty |-> qty, entry_price |-> price,
     notional |-> notional, entered_at |-> entered_at,
     timebox_until |-> timebox_until]

\* a price in dollars as a fraction
Price(num, den) == [num |-> num, den |-> den]

EmptyLedger == [s \in Symbols |-> NoRow]

InLedger(l, sym) == l[sym] # NoRow

\* set_timebox_on_entry: read the ledger file, set the symbol's row, write it
set_timebox_on_entry(file, sym, horizon, qty, entry_price, notional, t) ==
    [file EXCEPT ![sym] =
        Row(horizon, qty, Price(entry_price, 1), notional, t,
            t + HORIZON_TIMEBOX[horizon])]

\* a merge that adds the quantity and the notional and keeps the first price
merge_entry_first_price(l, sym, horizon, add_qty, add_price, add_notional) ==
    IF InLedger(l, sym)
    THEN [l EXCEPT ![sym] =
            Row(l[sym].horizon,
                l[sym].qty + add_qty,
                l[sym].entry_price,
                l[sym].notional + add_notional,
                l[sym].entered_at,
                l[sym].timebox_until)]
    ELSE [l EXCEPT ![sym] =
            Row(horizon, add_qty, Price(add_price, 1), add_notional, now, 0)]

\* a merge that sets the quantity to the added one instead of adding it
merge_entry_last_qty(l, sym, horizon, add_qty, add_price, add_notional) ==
    IF InLedger(l, sym)
    THEN [l EXCEPT ![sym] =
            Row(l[sym].horizon,
                add_qty,
                Price(add_price, 1),
                add_notional,
                l[sym].entered_at,
                l[sym].timebox_until)]
    ELSE [l EXCEPT ![sym] =
            Row(horizon, add_qty, Price(add_price, 1), add_notional, now, 0)]

\* merge_entry on a ledger dict that has the symbol: the timebox is kept
merge_entry(l, sym, horizon, add_qty, add_price, add_notional) ==
    IF InLedger(l, sym)
    THEN [l EXCEPT ![sym] =
            Row(l[sym].horizon,
                l[sym].qty + add_qty,
                Price(100 * (l[sym].notional + add_notional), l[sym].qty + add_qty),
                l[sym].notional + add_notional,
                l[sym].entered_at,
                l[sym].timebox_until)]
    ELSE [l EXCEPT ![sym] =
            Row(horizon, add_qty, Price(add_price, 1), add_notional, now, 0)]

\* ------------------------------------------------------------------------
\* autonomous_runner.py: the run log
\* ------------------------------------------------------------------------

\* one line of the log; n > 1 stands for n consecutive lines that differ only
\* in their symbol, none of them a symbol of Symbols
Line(when, sym, action, reason, n) ==
    [when |-> when, symbol |-> sym, action |-> action, reason |-> reason, n |-> n]

\* the file opened for writing instead of for appending
_append_run_rewriting(log, sym, action, reason) ==
    <<Line(now, sym, action, reason, 1)>>

_append_run(log, sym, action, reason) ==
    Append(log, Line(now, sym, action, reason, 1))

RECURSIVE LineCount(_)
LineCount(log) ==
    IF log = <<>> THEN 0 ELSE Head(log).n + LineCount(Tail(log))

\* the number of lines written after record i
LinesAfter(log, i) == LineCount(SubSeq(log, i + 1, Len(log)))

\* out[-max_lines:]
_read_recent_runs(log, max_lines) ==
    LET first == CHOOSE i \in 1..(Len(log) + 1) :
                    /\ \A j \in i..Len(log) : LinesAfter(log, j) < max_lines
                    /\ (i > 1 => LinesAfter(log, i - 1) >= max_lines)
    IN  SubSeq(log, first, Len(log))

RECURSIVE Reversed(_)
Reversed(seq) ==
    IF seq = <<>> THEN <<>> ELSE Append(Reversed(Tail(seq)), Head(seq))

RecentRunLines == 400

\* runs_for_symbol of run_once: newest first
runs_for_symbol(log, sym) ==
    LET runs == Reversed(_read_recent_runs(log, RecentRunLines))
    IN  SelectSeq(runs, LAMBDA r : r.symbol = sym)

\* ------------------------------------------------------------------------
\* The debate on its own: every vote list with at most one vote per agent,
\* under every threshold configuration of the sets below.
\* ------------------------------------------------------------------------

ConfLevels == {0, 10, 80, 90, 100}

EnterLevels == {2500, 3500, 5000, 6000, 9000}

ExitLevels == {2000, 2500, 4500}

AltWeights == [h \in Horizons |->
    CASE h = "short" -> 40 [] h = "mid" -> 40 [] h = "long" -> 20]

WeightChoices == {DefaultWeights, AltWeights}

Vote(agent, side, conf) == [agent |-> agent, decision |-> side, confidence |-> conf]

\* the votes one agent can contribute: none, or one vote
AgentVotes(agent) ==
    {<<>>} \cup {<<Vote(agent, s, c)>> : s \in Sides, c \in ConfLevels}

VoteLists ==
    {s \o m \o l : s \in AgentVotes("ShortTerm"),
                   m \in AgentVotes("MidTerm"),
                   l \in AgentVotes("LongTerm")}

\* ------------------------------------------------------------------------
\* Bounds and inputs of the cycle
\* ------------------------------------------------------------------------

MaxCycles == 2

MaxTicks == 1

MaxFaults == 1

\* the lines that calls on the other symbols of the watchlists append between
\* two calls on a symbol of Symbols
RestLines == 400

\* how often that happens
MaxRestBlocks == 1

\* the other symbols of the default watchlists: the lines of one pass
RestWatchlist == 8

TimeSteps == {60, 1440}

\* 22:00 UTC on day 10
StartTime == 10 * 1440 + 22 * 60

Accounts == {[cash |-> 1000, equity |-> 10000], [cash |-> 10000, equity |-> 10000]}

QuietAccount == [cash |-> 10000, equity |-> 10000]

\* what trader.last_price and the snapshot's latest close give (0: nothing)
Quotes == {[alpaca_px |-> 0, snap_px |-> 0],
           [alpaca_px |-> 20, snap_px |-> 20],
           [alpaca_px |-> 0, snap_px |-> 50]}

QuietQuote == [alpaca_px |-> 20, snap_px |-> 20]

\* what the three agents vote in a cycle
CycleVotes ==
    {<<Vote("ShortTerm", "BUY", 90), Vote("MidTerm", "BUY", 80), Vote("LongTerm", "HOLD", 0)>>,
     <<Vote("ShortTerm", "HOLD", 0), Vote("MidTerm", "BUY", 100), Vote("LongTerm", "HOLD", 0)>>,
     <<Vote("ShortTerm", "SELL", 90), Vote("MidTerm", "SELL", 90), Vote("LongTerm", "BUY", 10)>>,
     <<Vote("ShortTerm", "HOLD", 0), Vote("MidTerm", "HOLD", 0), Vote("LongTerm", "HOLD", 0)>>}

\* when the process starts it has bought 5 BTC/USD at 50 two hours ago, on
\* the short horizon, and it holds a mid-horizon row of 18 AAPL shares bought
\* at 20 whose timebox ends a day after the start
BoughtAt == StartTime - 120

HeldAtStart ==
    [EmptyLedger EXCEPT
        !["AAPL"] = Row("mid", Shares(18), Price(20, 1), 360,
                        StartTime + 1440 - HORIZON_TIMEBOX["mid"], StartTime + 1440),
        !["BTC/USD"] = Row("short", Shares(5), Price(50, 1), 250,
                           BoughtAt, BoughtAt + HORIZON_TIMEBOX["short"])]

LogAtStart == <<[when |-> BoughtAt, symbol |-> "BTC/USD", action |-> "BUY",
                 reason |-> None, n |-> 1]>>

OrdersAtStart == <<[symbol |-> "BTC/USD", qty |-> Shares(5), when |-> BoughtAt,
                    held |-> 0, allowed |-> 300, status |-> "filled",
                    horizon |-> "short"]>>

\* ------------------------------------------------------------------------
\* autonomous_runner.py: run_once and enforce_timeboxes, one thread each
\* ------------------------------------------------------------------------

Threads == {1, 2}

\* the locals of a run_once call on symbol sym that has just been entered
Fresh(sym) ==
    [pc |-> "idle", sym |-> sym,
     sweep |-> EmptyLedger, changed |-> FALSE,
     decision |-> NoDecision,
     cash |-> 0, equity |-> 0, alpaca_px |-> 0, snap_px |-> 0, last |-> 0,
     ledger |-> EmptyLedger, held_qty_ledger |-> 0,
     notional_allowed |-> -1, desired_qty |-> 0,
     order_id |-> None, filled_qty |-> 0, avg_px |-> 0,
     logged |-> 0, result |-> None,
     todo |-> <<>>]

AllIdle == \A t \in Threads : cyc[t].pc = "idle"

\* a sweep that lets a timebox run until after its last minute
ExpiredAfter(l, sym) ==
    /\ InLedger(l, sym)
    /\ l[sym].timebox_until # 0
    /\ now > l[sym].timebox_until

\* a timebox that has run out (enforce_timeboxes, "if now >= until")
Expired(l, sym) ==
    /\ InLedger(l, sym)
    /\ l[sym].timebox_until # 0
    /\ now >= l[sym].timebox_until

ExpiredIn(l) == {s \in Symbols : Expired(l, s)}

\* the first expired symbol in the order of the loop
NextExpired(l) ==
    SymbolOrder[CHOOSE i \in 1..Len(SymbolOrder) :
        /\ SymbolOrder[i] \in ExpiredIn(l)
        /\ \A j \in 1..(i - 1) : SymbolOrder[j] \notin ExpiredIn(l)]

\* the locals of a run_once call that has been entered: enforce_timeboxes
\* reads the ledger; with no row expired its loop does nothing, nothing is
\* written and it returns
Entered(sym) ==
    IF ExpiredIn(ledger) = {}
    THEN [Fresh(sym) EXCEPT !.pc = "gather"]
    ELSE [Fresh(sym) EXCEPT !.pc = "enforce", !.sweep = ledger]

\* run_once is entered, on the first thread that is free
Start(t, sym) ==
    /\ cyc[t].pc = "idle"
    /\ started < MaxCycles
    /\ overlap \/ AllIdle
    /\ \A u \in Threads : u < t => cyc[u].pc # "idle"
    /\ started' = started + 1
    /\ cyc' = [cyc EXCEPT ![t] = Entered(sym)]
    /\ UNCHANGED <<dvars, now, ticks, ledger, run_log, broker, orders, exits, faults, overlap>>

\* trader.close_position: the broker closes the position and returns an order
\* id, or it fails (or holds nothing) and None comes back; it never raises
ClosePosition(t, sym, ok) ==
    /\ ok => position_qty(sym) > 0
    /\ (~ok /\ position_qty(sym) > 0) => faults < MaxFaults
    /\ broker' = IF ok THEN [broker EXCEPT ![_to_broker_symbol(sym)] = 0] ELSE broker
    /\ exits' = Append(exits, [symbol |-> sym, when |-> now, ok |-> ok,
                               sweep |-> cyc[t].pc = "enforce"])

\* enforce_timeboxes, one iteration of the loop on an expired row:
\* close_position, the FORCED_EXIT line (FORCED_EXIT_FAILED when writing that
\* line raised), and the row popped from the local copy in either case
EnforceStep(t) ==
    /\ cyc[t].pc = "enforce"
    /\ ExpiredIn(cyc[t].sweep) # {}
    /\ LET sym == NextExpired(cyc[t].sweep)
       IN  \E ok \in BOOLEAN, written \in BOOLEAN :
            /\ ClosePosition(t, sym, ok)
            /\ LET failed == (IF written THEN 0 ELSE 1)
                              + (IF ~ok /\ position_qty(sym) > 0 THEN 1 ELSE 0)
               IN  /\ faults + failed <= MaxFaults
                   /\ faults' = faults + failed
            /\ run_log' = IF written
                          THEN _append_run(run_log, sym, "FORCED_EXIT",
                                           IF ok THEN "order" ELSE "no_order")
                          ELSE _append_run(run_log, sym, "FORCED_EXIT_FAILED", None)
            /\ cyc' = [cyc EXCEPT ![t].sweep = [@ EXCEPT ![sym] = NoRow],
                                  ![t].changed = TRUE]
    /\ UNCHANGED <<dvars, now, ticks, ledger, orders, started, overlap>>

\* enforce_timeboxes, after the loop: the ledger is written if a row was popped
EnforceDone(t) ==
    /\ cyc[t].pc = "enforce"
    /\ ExpiredIn(cyc[t].sweep) = {}
    /\ ledger' = IF cyc[t].changed THEN cyc[t].sweep ELSE ledger
    /\ cyc' = [cyc EXCEPT ![t].pc = "gather"]
    /\ UNCHANGED <<dvars, now, ticks, run_log, broker, orders, exits, started, faults, overlap>>

\* the call has returned (result is the action of the returned line) or has
\* raised (result is "RAISED"); of its locals the Decision, the account, the
\* price, the quantities and the order id stay visible
Return(c, result) ==
    [Fresh(c.sym) EXCEPT !.decision = c.decision,
                         !.cash = c.cash, !.equity = c.equity, !.last = c.last,
                         !.held_qty_ledger = c.held_qty_ledger,
                         !.notional_allowed = c.notional_allowed,
                         !.desired_qty = c.desired_qty,
                         !.order_id = c.order_id,
                         !.filled_qty = c.filled_qty,
                         !.logged = c.logged,
                         !.result = result,
                         !.todo = c.todo]

\* the call has appended a line for its own symbol
Logged(c) == [c EXCEPT !.logged = @ + 1]

held_qty_ledger(l, sym) == IF InLedger(l, sym) THEN l[sym].qty ELSE 0

\* last = float(alpaca_px or 0.0) or float(snap_px or 0.0)
LastPrice(alpaca_px, snap_px) == IF alpaca_px # 0 THEN alpaca_px ELSE snap_px

\* the three votes, the Decision, the account, the price and the ledger read;
\* trader.account_balances may raise once the Decision is made, and run_once
\* ends with the exception.
\* Only the BUY branch reads the account and the price: under another
\* Decision one account and one quote stand for all, and so they do for
\* calls that overlap, which ask the broker within the same minute
Gather(t) ==
    /\ cyc[t].pc = "gather"
    /\ \/ /\ faults < MaxFaults
          /\ faults' = faults + 1
          /\ \E vs \in CycleVotes :
                cyc' = [cyc EXCEPT ![t] =
                          Return([@ EXCEPT !.decision = horizon_decide(vs)], "RAISED")]
       \/ \E vs \in CycleVotes, acct \in Accounts, q \in Quotes :
            /\ (overlap \/ horizon_decide(vs).action # "BUY")
                    => (acct = QuietAccount /\ q = QuietQuote)
            /\ LastPrice(q.alpaca_px, q.snap_px) = 0 => faults < MaxFaults
            /\ faults' = IF LastPrice(q.alpaca_px, q.snap_px) = 0 THEN faults + 1 ELSE faults
            /\ cyc' = [cyc EXCEPT ![t] =
                 [@ EXCEPT !.pc = "branch",
                           !.decision = horizon_decide(vs),
                           !.cash = acct.cash, !.equity = acct.equity,
                           !.alpaca_px = q.alpaca_px, !.snap_px = q.snap_px,
                           !.last = LastPrice(q.alpaca_px, q.snap_px),
                           !.ledger = ledger,
                           !.held_qty_ledger = held_qty_ledger(ledger, cyc[t].sym)]]
    /\ UNCHANGED <<dvars, now, ticks, ledger, run_log, broker, orders, exits, started, overlap>>

\* 6) HOLD
Hold(t) ==
    /\ cyc[t].pc = "branch"
    /\ cyc[t].decision.action = "HOLD"
    /\ run_log' = _append_run(run_log, cyc[t].sym, "HOLD", None)
    /\ cyc' = [cyc EXCEPT ![t] = Return(Logged(@), "HOLD")]
    /\ UNCHANGED <<dvars, now, ticks, ledger, broker, orders, exits, started, faults, overlap>>

\* a SELL that looks at the ledger only
HasPositionInLedger(c) == c.held_qty_ledger > 0

\* "if (held_qty_ledger > 0.0) or (held_qty_broker > 0.0)"
HasPosition(c) == c.held_qty_ledger > 0 \/ position_qty(c.sym) > 0

\* 4) SELL with nothing held in the ledger or at the broker
SellNoPosition(t) ==
    /\ cyc[t].pc = "branch"
    /\ cyc[t].decision.action = "SELL"
    /\ ~HasPosition(cyc[t])
    /\ run_log' = _append_run(run_log, cyc[t].sym, "SELL_NO_POSITION", None)
    /\ cyc' = [cyc EXCEPT ![t] = Return(Logged(@), "SELL_NO_POSITION")]
    /\ UNCHANGED <<dvars, now, ticks, ledger, broker, orders, exits, started, faults, overlap>>

\* 4) SELL: trader.close_position
SellClose(t) ==
    /\ cyc[t].pc = "branch"
    /\ cyc[t].decision.action = "SELL"
    /\ HasPosition(cyc[t])
    /\ \E ok \in BOOLEAN :
        /\ ClosePosition(t, cyc[t].sym, ok)
        /\ faults' = IF ~ok /\ position_qty(cyc[t].sym) > 0 THEN faults + 1 ELSE faults
        /\ cyc' = [cyc EXCEPT ![t].pc = "sell_persist",
                              ![t].order_id = IF ok THEN "order" ELSE None]
    /\ UNCHANGED <<dvars, now, ticks, ledger, run_log, orders, started, overlap>>

\* 4) SELL: the row is popped and the ledger written, then the account is
\* fetched for the SELL line; a failure there is caught and logged SELL_FAILED
SellPersist(t) ==
    /\ cyc[t].pc = "sell_persist"
    /\ ledger' = IF InLedger(cyc[t].ledger, cyc[t].sym)
                 THEN [cyc[t].ledger EXCEPT ![cyc[t].sym] = NoRow]
                 ELSE ledger
    /\ \/ /\ faults' = faults
          /\ run_log' = _append_run(run_log, cyc[t].sym, "SELL",
                                    IF cyc[t].order_id = None THEN "no_order" ELSE "order")
          /\ cyc' = [cyc EXCEPT ![t] = Return(Logged(@), "SELL")]
       \/ /\ faults < MaxFaults
          /\ faults' = faults + 1
          /\ run_log' = _append_run(run_log, cyc[t].sym, "SELL_FAILED", None)
          /\ cyc' = [cyc EXCEPT ![t] = Return(Logged(@), "SELL_FAILED")]
    /\ UNCHANGED <<dvars, now, ticks, broker, orders, exits, started, overlap>>

\* a sizing that takes the symbol as not held
symbol_mv_unheld(last, held_qty) == 0

\* symbol_mv = (last * held_qty_ledger) if last and held_qty_ledger else 0.0
symbol_mv(last, held_qty) ==
    IF last # 0 /\ held_qty # 0 THEN Notional(held_qty, last) ELSE 0

\* "if notional_allowed <= 0"
CapsBlock(notional_allowed) == notional_allowed <= 0

\* "if desired_qty <= 0"
ShareCapBlock(desired_qty) == desired_qty <= 0

\* notional_allowed of run_once
NotionalAllowed(c) ==
    compute_allowed_notional(c.decision.target_horizon, c.cash, c.equity,
                             symbol_mv(c.last, c.held_qty_ledger))

\* desired_qty without the clamp
DesiredQtyUnclamped(c) == QtyFor(NotionalAllowed(c), c.last)

\* desired_qty of run_once, after the clamp
DesiredQty(c) ==
    clamp_qty_by_share_caps(QtyFor(NotionalAllowed(c), c.last), c.held_qty_ledger)

\* the throttles tested before the price
BuyBlockThrottlesFirst(c, log) ==
    IF c.decision.target_horizon \notin Horizons THEN "invalid_horizon"
    ELSE IF hit_daily_buy_limit(runs_for_symbol(log, c.sym), now) THEN "daily_limit"
    ELSE IF too_soon_since_last_buy(runs_for_symbol(log, c.sym), now) THEN "cooldown"
    ELSE IF c.last <= 0 THEN "no_price"
    ELSE IF CapsBlock(NotionalAllowed(c)) THEN "caps"
    ELSE IF ShareCapBlock(DesiredQty(c)) THEN "share_cap"
    ELSE None

\* 5) BUY: the guards and throttles in the order of the code; the reason of
\* the first one that blocks, None when none does
BuyBlock(c, log) ==
    IF c.decision.target_horizon \notin Horizons THEN "invalid_horizon"
    ELSE IF c.last <= 0 THEN "no_price"
    ELSE IF hit_daily_buy_limit(runs_for_symbol(log, c.sym), now) THEN "daily_limit"
    ELSE IF too_soon_since_last_buy(runs_for_symbol(log, c.sym), now) THEN "cooldown"
    ELSE IF CapsBlock(NotionalAllowed(c)) THEN "caps"
    ELSE IF ShareCapBlock(DesiredQty(c)) THEN "share_cap"
    ELSE None

\* the locals the BUY branch has assigned when it stops at reason (None: not
\* stopped)
BuyLocals(c, reason) ==
    IF reason \in {"invalid_horizon", "no_price", "daily_limit", "cooldown"}
    THEN c
    ELSE IF reason = "caps"
    THEN [c EXCEPT !.notional_allowed = NotionalAllowed(c)]
    ELSE [c EXCEPT !.notional_allowed = NotionalAllowed(c),
                   !.desired_qty = DesiredQty(c)]

\* 5) BUY stopped by a guard or throttle: SUGGEST_BUY
BuyBlocked(t) ==
    /\ cyc[t].pc = "branch"
    /\ cyc[t].decision.action = "BUY"
    /\ LET reason == BuyBlock(cyc[t], run_log)
       IN  /\ reason # None
           /\ run_log' = _append_run(run_log, cyc[t].sym, "SUGGEST_BUY", reason)
           /\ cyc' = [cyc EXCEPT ![t] = Return(Logged(BuyLocals(@, reason)), "SUGGEST_BUY")]
    /\ UNCHANGED <<dvars, now, ticks, ledger, broker, orders, exits, started, faults, overlap>>

\* trader.market_buy_qty: submit_order raises ("rejected"), or the order is
\* accepted and _await_fills sees it filled, partially filled (one share),
\* canceled unfilled, or sees no final status before its timeout ("pending",
\* nothing filled so far); with no filled quantity the requested one is
\* returned
FillOutcomes == {"rejected", "filled", "partial", "canceled", "pending"}

BrokerFill(outcome, qty) ==
    CASE outcome = "filled"  -> qty
      [] outcome = "partial" -> Shares(1)
      [] OTHER               -> 0

_await_fills(outcome, requested_qty) ==
    IF BrokerFill(outcome, requested_qty) <= 0
    THEN requested_qty
    ELSE BrokerFill(outcome, requested_qty)

\* 5) BUY: all guards passed, the order goes to the broker
BuySubmit(t) ==
    /\ cyc[t].pc = "branch"
    /\ cyc[t].decision.action = "BUY"
    /\ BuyBlock(cyc[t], run_log) = None
    /\ LET c   == BuyLocals(cyc[t], None)
           bs  == _to_broker_symbol(c.sym)
       IN  \E outcome \in FillOutcomes :
            /\ outcome = "partial" => c.desired_qty > Shares(1)
            /\ outcome # "filled" => faults < MaxFaults
            /\ faults' = IF outcome # "filled" THEN faults + 1 ELSE faults
            /\ IF outcome = "rejected"
               THEN /\ cyc' = [cyc EXCEPT ![t] = Return(c, "RAISED")]
                    /\ UNCHANGED <<broker, orders>>
               ELSE /\ broker' = [broker EXCEPT ![bs] = @ + BrokerFill(outcome, c.desired_qty)]
                    /\ orders' = Append(orders,
                           [symbol |-> c.sym, qty |-> c.desired_qty, when |-> now,
                            held |-> held_qty_ledger(ledger, c.sym),
                            allowed |-> c.notional_allowed,
                            status |-> outcome,
                            horizon |-> c.decision.target_horizon])
                    /\ cyc' = [cyc EXCEPT ![t] =
                           [c EXCEPT !.pc = "buy_persist",
                                     !.order_id = "order",
                                     !.filled_qty = _await_fills(outcome, c.desired_qty),
                                     !.avg_px = c.last]]
    /\ UNCHANGED <<dvars, now, ticks, ledger, run_log, exits, started, overlap>>

\* 5) BUY: first entry or merge, then the account is fetched for the BUY line;
\* a failure there leaves run_once through the exception, without a line, and
\* so does a write_ledger that cannot open the file, which leaves the ledger
\* as it was
BuyPersist(t) ==
    /\ cyc[t].pc = "buy_persist"
    /\ LET c == cyc[t]
           n == Notional(c.filled_qty, c.avg_px)
           written == IF ~InLedger(c.ledger, c.sym)
                      THEN set_timebox_on_entry(ledger, c.sym, c.decision.target_horizon,
                                                c.filled_qty, c.avg_px, n, now)
                      ELSE merge_entry(c.ledger, c.sym, c.decision.target_horizon,
                                       c.filled_qty, c.avg_px, n)
       IN  \/ /\ ledger' = written
              /\ faults' = faults
              /\ run_log' = _append_run(run_log, c.sym, "BUY", None)
              /\ cyc' = [cyc EXCEPT ![t] = Return(Logged(@), "BUY")]
           \/ /\ ledger' = written
              /\ faults < MaxFaults
              /\ faults' = faults + 1
              /\ run_log' = run_log
              /\ cyc' = [cyc EXCEPT ![t] = Return(@, "RAISED")]
           \/ /\ ledger' = ledger
              /\ faults < MaxFaults
              /\ faults' = faults + 1
              /\ run_log' = run_log
              /\ cyc' = [cyc EXCEPT ![t] = Return(@, "RAISED")]
    /\ UNCHANGED <<dvars, now, ticks, broker, orders, exits, started, overlap>>

\* run_once on the symbols of the watchlists that are not in Symbols, in the
\* scheduled loops and on poller events, each call ending in HOLD: one line
\* each, in one block of the log: one pass, or RestLines lines
WatchlistRest ==
    /\ AllIdle
    /\ started < MaxCycles
    /\ \A s \in Symbols : ~Expired(ledger, s)
    /\ Cardinality({i \in 1..Len(run_log) : run_log[i].symbol = "REST"}) < MaxRestBlocks
    /\ \E n \in {RestWatchlist, RestLines} :
        run_log' = Append(run_log, Line(now, "REST", "HOLD", None, n))
    /\ UNCHANGED <<dvars, now, ticks, ledger, broker, orders, exits, cyc, started, faults, overlap>>

\* time passes between calls
Tick ==
    /\ AllIdle
    /\ started < MaxCycles
    /\ ticks < MaxTicks
    /\ \E d \in TimeSteps : now' = now + d
    /\ ticks' = ticks + 1
    /\ UNCHANGED <<dvars, ledger, run_log, broker, orders, exits, cyc, started, faults, overlap>>

\* the process starts: the ledger file and the log as left by earlier runs,
\* the broker holding what the ledger says, no call in flight
InitCycle(l, log, sent) ==
    /\ now = StartTime
    /\ ticks = 0
    /\ ledger = l
    /\ broker = [b \in BrokerSymbols |->
                    IF b = "AAPL" THEN l["AAPL"].qty ELSE l["BTC/USD"].qty]
    /\ run_log = log
    /\ orders = sent
    /\ exits = <<>>
    /\ cyc = [t \in Threads |-> Fresh(None)]
    /\ started = 0
    /\ faults = 0

\* ------------------------------------------------------------------------
\* SpecDebate: horizon_decide alone
\* ------------------------------------------------------------------------

InitDebate ==
    /\ enter_th \in EnterLevels
    /\ exit_th \in ExitLevels
    /\ weights \in WeightChoices
    /\ votes \in VoteLists
    /\ decision = NoDecision
    /\ InitCycle(EmptyLedger, <<>>, <<>>)
    /\ overlap = FALSE

DebateCall ==
    /\ decision = NoDecision
    /\ decision' = horizon_decide(votes)
    /\ UNCHANGED <<enter_th, exit_th, weights, votes, cvars>>

NextDebate == DebateCall

SpecDebate == InitDebate /\ [][NextDebate]_vars

\* ------------------------------------------------------------------------
\* Spec: run_once calls one after the other, as run_once builds its Debate
\* (settings thresholds, default weights)
\* ------------------------------------------------------------------------

Init ==
    /\ enter_th = mean_confidence_to_act
    /\ exit_th = exit_confidence_to_act
    /\ weights = DefaultWeights
    /\ votes = <<>>
    /\ decision = NoDecision
    /\ InitCycle(HeldAtStart, LogAtStart, OrdersAtStart)
    /\ overlap = FALSE

Next ==
    \/ Tick
    \/ WatchlistRest
    \/ \E t \in Threads, sym \in Symbols : Start(t, sym)
    \/ \E t \in Threads : EnforceStep(t)
    \/ \E t \in Threads : EnforceDone(t)
    \/ \E t \in Threads : Gather(t)
    \/ \E t \in Threads : Hold(t)
    \/ \E t \in Threads : SellNoPosition(t)
    \/ \E t \in Threads : SellClose(t)
    \/ \E t \in Threads : SellPersist(t)
    \/ \E t \in Threads : BuyBlocked(t)
    \/ \E t \in Threads : BuySubmit(t)
    \/ \E t \in Threads : BuyPersist(t)

Spec == Init /\ [][Next]_vars

\* ------------------------------------------------------------------------
\* SpecOverlap: run_once calls that overlap in time, as the scheduler's jobs
\* and the poller threads of run_scheduler make them
\* ------------------------------------------------------------------------

InitOverlap ==
    /\ enter_th = mean_confidence_to_act
    /\ exit_th = exit_confidence_to_act
    /\ weights = DefaultWeights
    /\ votes = <<>>
    /\ decision = NoDecision
    /\ InitCycle(HeldAtStart, LogAtStart, OrdersAtStart)
    /\ overlap = TRUE

SpecOverlap == InitOverlap /\ [][Next]_vars

\* The calls one after the other, from a start at which BTC/USD is neither
\* held nor in the ledger and nothing has been logged: the first buy of the
\* symbol and what follows it
UnheldAtStart == [HeldAtStart EXCEPT !["BTC/USD"] = NoRow]

InitUnheld ==
    /\ enter_th = mean_confidence_to_act
    /\ exit_th = exit_confidence_to_act
    /\ weights = DefaultWeights
    /\ votes = <<>>
    /\ decision = NoDecision
    /\ InitCycle(UnheldAtStart, <<>>, <<>>)
    /\ overlap = FALSE

SpecUnheld == InitUnheld /\ [][Next]_vars

\* ------------------------------------------------------------------------
\* SpecEntry: the ledger update of a BUY whose order has just been filled,
\* on every horizon, as a first entry and as an addition to a row
\* ------------------------------------------------------------------------

\* votes that aggregate to BUY on each of the three horizons
EntryVotes ==
    {<<Vote("ShortTerm", "BUY", 90), Vote("MidTerm", "BUY", 80), Vote("LongTerm", "HOLD", 0)>>,
     <<Vote("ShortTerm", "HOLD", 0), Vote("MidTerm", "BUY", 100), Vote("LongTerm", "HOLD", 0)>>,
     <<Vote("ShortTerm", "HOLD", 0), Vote("MidTerm", "HOLD", 0), Vote("LongTerm", "BUY", 100)>>}

\* filled quantities and fill prices
EntryFills == {Shares(1), Shares(2), Shares(5)}

EntryPrices == {20, 50}

InitEntry ==
    /\ enter_th = mean_confidence_to_act
    /\ exit_th = exit_confidence_to_act
    /\ weights = DefaultWeights
    /\ votes = <<>>
    /\ decision = NoDecision
    /\ now = StartTime
    /\ ticks = 0
    /\ exits = <<>>
    /\ started = 1
    /\ faults = 0
    /\ overlap = FALSE
    /\ \E l \in {EmptyLedger, HeldAtStart}, sym \in Symbols, vs \in EntryVotes,
          qty \in EntryFills, px \in EntryPrices :
        /\ held_qty_ledger(l, sym) + qty <= Shares(MAX_SHARES_PER_SYMBOL)
        /\ ledger = l
        /\ run_log = IF l = EmptyLedger THEN <<>> ELSE LogAtStart
        /\ broker = [b \in BrokerSymbols |->
                        (IF b = "AAPL" THEN l["AAPL"].qty ELSE l["BTC/USD"].qty)
                        + (IF b = _to_broker_symbol(sym) THEN qty ELSE 0)]
        /\ orders = Append(IF l = EmptyLedger THEN <<>> ELSE OrdersAtStart,
                           [symbol |-> sym, qty |-> qty, when |-> StartTime,
                            held |-> held_qty_ledger(l, sym),
                            allowed |-> Notional(qty, px),
                            status |-> "filled",
                            horizon |-> horizon_decide(vs).target_horizon])
        /\ cyc = [t \in Threads |->
                    IF t = 1
                    THEN [Fresh(sym) EXCEPT
                            !.pc = "buy_persist",
                            !.decision = horizon_decide(vs),
                            !.cash = QuietAccount.cash, !.equity = QuietAccount.equity,
                            !.alpaca_px = px, !.snap_px = px, !.last = px,
                            !.ledger = l,
                            !.held_qty_ledger = held_qty_ledger(l, sym),
                            !.notional_allowed = Notional(qty, px),
                            !.desired_qty = qty,
                            !.order_id = "order",
                            !.filled_qty = qty,
                            !.avg_px = px]
                    ELSE Fresh(None)]

NextEntry == \E t \in Threads : BuyPersist(t)

SpecEntry == InitEntry /\ [][NextEntry]_vars

\* ------------------------------------------------------------------------
\* SpecStartup: run_scheduler.py, the reconciliation pass of the main block
\* ------------------------------------------------------------------------

\* trader.list_positions as the dict reconcile_ledger_with_broker builds of
\* it: the broker's quantities, or nothing at all when the listing call
\* raised and list_positions returned []
list_positions(ok) ==
    [b \in BrokerSymbols |-> IF ok THEN broker[b] ELSE 0]

\* reconcile_ledger_with_broker: rows whose broker quantity is <= 0 are popped
reconcile_ledger_with_broker(l, listed) ==
    [s \in Symbols |->
        IF listed[_to_broker_symbol(s)] <= 0 THEN NoRow ELSE l[s]]

Reconcile ==
    /\ cyc[1].pc = "startup"
    /\ \E ok \in BOOLEAN :
        /\ ~ok => faults < MaxFaults
        /\ faults' = IF ok THEN faults ELSE faults + 1
        /\ ledger' = reconcile_ledger_with_broker(ledger, list_positions(ok))
    /\ cyc' = [cyc EXCEPT ![1].pc = "idle"]
    /\ UNCHANGED <<dvars, now, ticks, run_log, broker, orders, exits, started, overlap>>

\* the ledger files an earlier run can have left and what the broker holds
\* when the process starts
StartupRows(s) ==
    {NoRow,
     Row("short", Shares(5), Price(50, 1), 250, BoughtAt, BoughtAt + HORIZON_TIMEBOX["short"]),
     Row("mid", Shares(18), Price(20, 1), 360, BoughtAt, BoughtAt + HORIZON_TIMEBOX["mid"])}

StartupHoldings == {0, Shares(5), Shares(18)}

InitStartup ==
    /\ enter_th = mean_confidence_to_act
    /\ exit_th = exit_confidence_to_act
    /\ weights = DefaultWeights
    /\ votes = <<>>
    /\ decision = NoDecision
    /\ now = StartTime
    /\ ticks = 0
    /\ ledger \in {l \in [Symbols -> UNION {StartupRows(s) : s \in Symbols}] :
                      \A s \in Symbols : l[s] \in StartupRows(s)}
    /\ broker \in [BrokerSymbols -> StartupHoldings]
    /\ run_log = <<>>
    /\ orders = <<>>
    /\ exits = <<>>
    /\ cyc = [t \in Threads |->
                IF t = 1 THEN [Fresh(None) EXCEPT !.pc = "startup"] ELSE Fresh(None)]
    /\ started = 0
    /\ faults = 0
    /\ overlap = FALSE

NextStartup == Reconcile

SpecStartup == InitStartup /\ [][NextStartup]_vars

\* ------------------------------------------------------------------------
\* SpecJob: run_scheduler.py, one trigger that calls run_once on the symbols
\* of its watchlist one after the other ("for s in WATCHLIST: run_once(s)")
\* ------------------------------------------------------------------------

JobWatchlist == <<"AAPL", "BTC/USD">>

\* the loop calls run_once on the next symbol of the watchlist
JobStep(t) ==
    /\ cyc[t].pc = "idle"
    /\ cyc[t].todo # <<>>
    /\ cyc[t].result # "RAISED"
    /\ started < MaxCycles
    /\ started' = started + 1
    /\ cyc' = [cyc EXCEPT ![t] =
          [Entered(Head(cyc[t].todo)) EXCEPT !.todo = Tail(cyc[t].todo)]]
    /\ UNCHANGED <<dvars, now, ticks, ledger, run_log, broker, orders, exits, faults, overlap>>

\* run_once has raised: the loop has no try/except, the exception leaves the
\* job function and the symbols that were left are not visited
JobRaised(t) ==
    /\ cyc[t].pc = "idle"
    /\ cyc[t].todo # <<>>
    /\ cyc[t].result = "RAISED"
    /\ cyc' = [cyc EXCEPT ![t].todo = <<>>]
    /\ UNCHANGED <<dvars, now, ticks, ledger, run_log, broker, orders, exits, started,
                   faults, overlap>>

InitJob ==
    /\ enter_th = mean_confidence_to_act
    /\ exit_th = exit_confidence_to_act
    /\ weights = DefaultWeights
    /\ votes = <<>>
    /\ decision = NoDecision
    /\ now \in {StartTime, StartTime + 1440}
    /\ ticks = 0
    /\ ledger = HeldAtStart
    /\ broker = [b \in BrokerSymbols |->
                    IF b = "AAPL" THEN HeldAtStart["AAPL"].qty
                    ELSE HeldAtStart["BTC/USD"].qty]
    /\ run_log = LogAtStart
    /\ orders = OrdersAtStart
    /\ exits = <<>>
    /\ cyc = [t \in Threads |->
                IF t = 1 THEN [Fresh(None) EXCEPT !.todo = JobWatchlist] ELSE Fresh(None)]
    /\ started = 0
    /\ faults = 0
    /\ overlap = FALSE

NextJob ==
    \/ \E t \in Threads : JobStep(t)
    \/ \E t \in Threads : JobRaised(t)
    \/ \E t \in Threads : EnforceStep(t)
    \/ \E t \in Threads : EnforceDone(t)
    \/ \E t \in Threads : Gather(t)
    \/ \E t \in Threads : Hold(t)
    \/ \E t \in Threads : SellNoPosition(t)
    \/ \E t \in Threads : SellClose(t)
    \/ \E t \in Threads : SellPersist(t)
    \/ \E t \in Threads : BuyBlocked(t)
    \/ \E t \in Threads : BuySubmit(t)
    \/ \E t \in Threads : BuyPersist(t)

SpecJob == InitJob /\ [][NextJob]_vars

\* ------------------------------------------------------------------------
\* Claims about horizon_decide (checked under SpecDebate)
\* ------------------------------------------------------------------------

Returned == decision # NoDecision

\* the votes given for horizon h
VotesFor(h) == {i \in 1..Len(votes) : horizon_map(votes[i].agent) = h}

\* weight * confidence * side_factor of the opinion for h, 0 without one
SignedScore(h) ==
    IF VotesFor(h) = {} THEN 0
    ELSE LET v == votes[CHOOSE i \in VotesFor(h) : TRUE]
         IN  CASE v.decision = "BUY"  -> weights[h] * v.confidence
               [] v.decision = "SELL" -> 0 - weights[h] * v.confidence
               [] OTHER               -> 0

LargestScore == CHOOSE x \in {SignedScore(h) : h \in Horizons} :
                    \A h \in Horizons : SignedScore(h) <= x

SmallestScore == CHOOSE x \in {SignedScore(h) : h \in Horizons} :
                     \A h \in Horizons : SignedScore(h) >= x

NetScore == SignedScore("short") + SignedScore("mid") + SignedScore("long")

HasVotes(s, sc, m, mc, l, lc) ==
    votes = <<Vote("ShortTerm", s, sc), Vote("MidTerm", m, mc), Vote("LongTerm", l, lc)>>

\* C1 as stated: the action is BUY exactly when the largest per-horizon signed
\* score reaches enter_threshold.
C1_BuyIffLargestScore ==
    Returned => (decision.action = "BUY" <=> LargestScore >= enter_th)

\* C1 amended: the action is BUY exactly when the net score (the sum of the
\* three signed scores) reaches enter_threshold, or the net score is above
\* -exit_threshold and the largest signed score reaches enter_threshold.
C1_BuyIffNetOrLargest ==
    Returned =>
        (decision.action = "BUY" <=>
            \/ NetScore >= enter_th
            \/ (NetScore > -exit_th /\ LargestScore >= enter_th))

\* Scenario A: scores .36/.28/0 under enter_th .5, exit_th .45 and the default
\* weights: no horizon reaches .5, the net score .64 does, the action is BUY.
C1_ScenarioA ==
    /\ HasVotes("BUY", 90, "BUY", 80, "HOLD", 0)
    /\ weights = DefaultWeights /\ enter_th = 5000 /\ exit_th = 4500
    /\ LargestScore = 3600
    /\ decision.action = "BUY"

C3_BuyConfidenceIsOwnScore ==
    (Returned /\ decision.action = "BUY") =>
        /\ decision.target_horizon \in Horizons
        /\ SignedScore(decision.target_horizon) = LargestScore
        /\ 10 * decision.confidence = SignedScore(decision.target_horizon)

\* C3 amended: on BUY the target horizon has the largest signed score; the
\* confidence is the net score when the net score reaches enter_threshold, and
\* the target horizon's own signed score otherwise.
C3_BuyConfidenceIsNetOrOwn ==
    (Returned /\ decision.action = "BUY") =>
        /\ decision.target_horizon \in Horizons
        /\ SignedScore(decision.target_horizon) = LargestScore
        /\ 10 * decision.confidence =
              (IF NetScore >= enter_th THEN NetScore ELSE LargestScore)

\* Scenario C: three BUY opinions at 1.0, default weights, enter_th .35: BUY on
\* short with confidence 1.0, the net score.
C3_ScenarioC ==
    /\ HasVotes("BUY", 100, "BUY", 100, "BUY", 100)
    /\ weights = DefaultWeights /\ enter_th = 3500
    /\ decision.action = "BUY"
    /\ decision.target_horizon = "short"
    /\ decision.confidence = 1000

\* C4: with every opinion HOLD (the empty list included) the Decision is HOLD
\* with confidence 0 and all scores 0; a horizon without an opinion has score 0.
C4_AllHoldGivesHoldZero ==
    Returned =>
        /\ (\A i \in 1..Len(votes) : votes[i].decision = "HOLD") =>
               /\ decision.action = "HOLD"
               /\ decision.confidence = 0
               /\ \A h \in Horizons : decision.scores[h] = 0
        /\ \A h \in Horizons : VotesFor(h) = {} => decision.scores[h] = 0

\* three HOLD opinions given with confidence .9 have been decided
C4_Witness ==
    /\ HasVotes("HOLD", 90, "HOLD", 90, "HOLD", 90)
    /\ decision.action = "HOLD"

\* horizon h has a BUY at confidence 1.0 and every other opinion is HOLD
SingleFullBuy(h) ==
    /\ \E i \in VotesFor(h) : votes[i].decision = "BUY" /\ votes[i].confidence = 100
    /\ \A i \in 1..Len(votes) : i \notin VotesFor(h) => votes[i].decision = "HOLD"

\* C5: one horizon h BUY at 1.0, the others HOLD: scores[h] = weight[h], and
\* the action is BUY exactly when weight[h] >= enter_threshold.
C5_SingleBuyScoreIsWeight ==
    \A h \in Horizons :
        (Returned /\ SingleFullBuy(h)) =>
            /\ decision.scores[h] = 100 * weights[h]
            /\ (decision.action = "BUY" <=> 100 * weights[h] >= enter_th)

\* mid alone BUY at 1.0 with weight .35 = enter_th: decided BUY
C5_Witness ==
    /\ SingleFullBuy("mid")
    /\ 100 * weights["mid"] = enter_th
    /\ decision.action = "BUY"

Position(h) == CHOOSE i \in 1..Len(HorizonOrder) : HorizonOrder[i] = h

\* C6: the selected horizon is the earliest, in the order short, mid, long, of
\* the horizons with the largest signed score (BUY) or the smallest (SELL).
C6_TieGoesToEarliest ==
    Returned =>
        /\ decision.action = "BUY" =>
              /\ decision.scores[decision.target_horizon] = LargestScore
              /\ \A h \in Horizons :
                    Position(h) < Position(decision.target_horizon)
                        => decision.scores[h] < LargestScore
        /\ decision.action = "SELL" =>
              /\ decision.scores[decision.target_horizon] = SmallestScore
              /\ \A h \in Horizons :
                    Position(h) < Position(decision.target_horizon)
                        => decision.scores[h] > SmallestScore

\* short and mid tie for the largest score and the BUY goes to short
C6_Witness ==
    /\ decision.action = "BUY"
    /\ SignedScore("short") = LargestScore
    /\ SignedScore("mid") = LargestScore
    /\ SignedScore("long") < LargestScore
    /\ decision.target_horizon = "short"

\* ------------------------------------------------------------------------
\* Claims about the BUY branch of run_once (checked under Spec)
\* ------------------------------------------------------------------------

\* a call that has computed notional_allowed, running or returned
Sized(c) == c.decision.action = "BUY" /\ c.notional_allowed # -1

\* the orders the broker accepted for sym on the UTC day of time t
BuysOn(sym, day) ==
    {i \in 1..Len(orders) : orders[i].symbol = sym /\ DayOf(orders[i].when) = day}

\* C7: the notional authorized for a BUY is the least of cash minus the cash
\* floor, the horizon cap and the per-symbol cap minus the value held of the
\* symbol, floored at 0; it is never negative; a call that computed 0 has
\* sent no order and returns SUGGEST_BUY, and every order sent was authorized
\* a positive notional.
C7_AllowedNotional ==
    /\ \A t \in Threads :
        LET c == cyc[t]
            room == Min3(c.cash - (CASH_FLOOR_PCT * c.equity) \div 100,
                         (HORIZON_TRADE_CAP_PCT[c.decision.target_horizon] * c.equity) \div 100,
                         (PER_SYMBOL_EXPOSURE_CAP_PCT * c.equity) \div 100
                            - (c.held_qty_ledger * c.last) \div 100)
        IN  Sized(c) =>
              /\ c.notional_allowed = (IF room < 0 THEN 0 ELSE room)
              /\ c.notional_allowed >= 0
              /\ c.notional_allowed = 0 =>
                    /\ c.order_id = None
                    /\ c.pc = "idle"
                    /\ c.result = "SUGGEST_BUY"
    /\ \A i \in 1..Len(orders) : orders[i].allowed > 0

\* Scenario D: cash 1000, equity 10000, nothing held, short horizon: 0 is
\* authorized and the call returns SUGGEST_BUY without an order
C7_ScenarioD ==
    \E t \in Threads :
        /\ Sized(cyc[t])
        /\ cyc[t].cash = 1000 /\ cyc[t].equity = 10000
        /\ cyc[t].held_qty_ledger = 0
        /\ cyc[t].decision.target_horizon = "short"
        /\ cyc[t].notional_allowed = 0
        /\ cyc[t].result = "SUGGEST_BUY"
        /\ cyc[t].order_id = None

\* C8: every buy order sent has a quantity above 0, at most max_shares_per_buy
\* and at most max_shares_per_symbol minus the quantity the ledger holds of
\* the symbol; the quantity the ledger records for a symbol never exceeds
\* max_shares_per_symbol.
C8_ShareCaps ==
    /\ \A i \in 1..Len(orders) :
        /\ 0 < orders[i].qty
        /\ orders[i].qty <= 100 * MAX_SHARES_PER_BUY
        /\ orders[i].qty <= 100 * MAX_SHARES_PER_SYMBOL - orders[i].held
    /\ \A s \in Symbols : ledger[s].qty <= 100 * MAX_SHARES_PER_SYMBOL

\* 18 shares held, an order clamped to 2 shares, 20 shares in the ledger
C8_Witness ==
    /\ \E i \in 1..Len(orders) :
        /\ orders[i].symbol = "AAPL"
        /\ orders[i].held = 1800
        /\ orders[i].qty = 200
    /\ ledger["AAPL"].qty = 100 * MAX_SHARES_PER_SYMBOL

\* C9: two buy orders for one symbol are never closer in time than
\* rebuy_cooldown_minutes: a BUY call within the cooldown of an executed BUY
\* sends no order.
C9_CooldownBetweenBuys ==
    \A i, j \in 1..Len(orders) :
        (i < j /\ orders[i].symbol = orders[j].symbol)
            => orders[j].when - orders[i].when >= REBUY_COOLDOWN_MINUTES

\* a BUY call stopped by the cooldown after a buy order for its symbol
C9_CooldownBlocks ==
    /\ run_log # <<>>
    /\ LET l == run_log[Len(run_log)]
       IN  /\ l.action = "SUGGEST_BUY"
           /\ l.reason = "cooldown"
           /\ \E i \in 1..Len(orders) :
                /\ orders[i].symbol = l.symbol
                /\ l.when - orders[i].when < REBUY_COOLDOWN_MINUTES

\* C10: when every executed BUY has its line in the log, the buy orders for
\* one symbol within one UTC day never exceed daily_buy_limit_per_symbol,
\* however many lines for other symbols were logged in between.
C10_DailyBuyLimit ==
    (\A i \in 1..Len(orders) :
        \E k \in 1..Len(run_log) :
            /\ run_log[k].symbol = orders[i].symbol
            /\ run_log[k].action = "BUY"
            /\ run_log[k].when = orders[i].when)
    => \A s \in Symbols :
        Cardinality(BuysOn(s, DayOf(now))) <= DAILY_BUY_LIMIT_PER_SYMBOL

\* a BUY call stopped by the daily limit, with lines of other symbols logged
\* since the buys of the day
C10_DailyLimitBlocks ==
    /\ run_log # <<>>
    /\ LET l == run_log[Len(run_log)]
       IN  /\ l.action = "SUGGEST_BUY"
           /\ l.reason = "daily_limit"
           /\ Cardinality(BuysOn(l.symbol, DayOf(l.when))) = DAILY_BUY_LIMIT_PER_SYMBOL
           /\ \E k \in 1..Len(run_log) : run_log[k].symbol = "REST"

\* ------------------------------------------------------------------------
\* Claims about the branches of run_once (checked under Spec)
\* ------------------------------------------------------------------------

\* thread t is at the head of its branch with Decision action
AtBranch(t, action) == cyc[t].pc = "branch" /\ cyc[t].decision.action = action

\* thread t takes a step
Steps(t) == cyc'[t] # cyc[t]

\* the log has grown by exactly one line, for sym, with this action and reason
OneLine(sym, action, reason) ==
    /\ Len(run_log') = Len(run_log) + 1
    /\ SubSeq(run_log', 1, Len(run_log)) = run_log
    /\ run_log'[Len(run_log')].symbol = sym
    /\ run_log'[Len(run_log')].action = action
    /\ run_log'[Len(run_log')].reason = reason
    /\ run_log'[Len(run_log')].n = 1

\* the first gate of the order daily limit, cooldown, notional caps, share
\* caps that stops the BUY of thread t, None when every gate passes
FirstFailingGate(t) ==
    LET c       == cyc[t]
        runs    == runs_for_symbol(run_log, c.sym)
        allowed == compute_allowed_notional(c.decision.target_horizon, c.cash, c.equity,
                                            (c.held_qty_ledger * c.last) \div 100)
        qty     == clamp_qty_by_share_caps((100 * allowed) \div c.last, c.held_qty_ledger)
    IN  IF hit_daily_buy_limit(runs, now) THEN "daily_limit"
        ELSE IF too_soon_since_last_buy(runs, now) THEN "cooldown"
        ELSE IF allowed <= 0 THEN "caps"
        ELSE IF qty <= 0 THEN "share_cap"
        ELSE None

\* C11: a BUY with a price whose first failing gate, in the order daily limit,
\* cooldown, notional caps, share caps, is g ends in one step with exactly one
\* SUGGEST_BUY line whose reason is g, no order and the ledger as it was; and a
\* call whose Decision is BUY never ends without a line for its symbol.
C11_GatesInOrder ==
    /\ [][\A t \in Threads :
            (AtBranch(t, "BUY") /\ cyc[t].last > 0 /\ Steps(t)
                /\ FirstFailingGate(t) # None)
            => /\ OneLine(cyc[t].sym, "SUGGEST_BUY", FirstFailingGate(t))
               /\ orders' = orders
               /\ broker' = broker
               /\ ledger' = ledger
               /\ cyc'[t].pc = "idle"
               /\ cyc'[t].result = "SUGGEST_BUY"]_vars
    /\ [](\A t \in Threads :
            (cyc[t].pc = "idle" /\ cyc[t].decision.action = "BUY")
                => cyc[t].logged >= 1)

\* the gates alone: the part of C11 about the order of the gates
C11_GateOrderOnly ==
    [][\A t \in Threads :
            (AtBranch(t, "BUY") /\ cyc[t].last > 0 /\ Steps(t)
                /\ FirstFailingGate(t) # None)
            => /\ OneLine(cyc[t].sym, "SUGGEST_BUY", FirstFailingGate(t))
               /\ orders' = orders
               /\ ledger' = ledger]_vars

\* a BUY that the cooldown stops although the notional caps would stop it too
C11_Witness ==
    /\ run_log # <<>>
    /\ \E t \in Threads :
        /\ cyc[t].pc = "idle"
        /\ cyc[t].result = "SUGGEST_BUY"
        /\ cyc[t].cash = 1000
        /\ cyc[t].notional_allowed = -1
        /\ run_log[Len(run_log)].reason = "cooldown"
        /\ run_log[Len(run_log)].symbol = cyc[t].sym

SellReturned(t) ==
    /\ cyc[t].pc = "idle"
    /\ cyc[t].decision.action = "SELL"
    /\ cyc[t].result \in {"SELL", "SELL_FAILED"}

\* C14: a SELL whose close order failed at the broker (no order id, the
\* broker still holds the symbol) has recorded SELL_FAILED and the row it
\* found in the ledger is still there; and whenever SELL_FAILED is recorded
\* the row of the symbol has not been removed.
C14_SellFailedKeepsLedger ==
    \A t \in Threads :
        SellReturned(t) =>
            /\ (cyc[t].order_id = None /\ position_qty(cyc[t].sym) > 0)
                => /\ cyc[t].result = "SELL_FAILED"
                   /\ cyc[t].held_qty_ledger > 0 => InLedger(ledger, cyc[t].sym)
            /\ (cyc[t].result = "SELL_FAILED" /\ cyc[t].held_qty_ledger > 0)
                => InLedger(ledger, cyc[t].sym)

\* a SELL_FAILED line has been written for a symbol the ledger held
C14_Witness ==
    /\ run_log # <<>>
    /\ run_log[Len(run_log)].action = "SELL_FAILED"
    /\ \E t \in Threads :
        /\ SellReturned(t)
        /\ cyc[t].held_qty_ledger > 0
        /\ run_log[Len(run_log)].symbol = cyc[t].sym

\* C15: no exception escapes run_once: every call that has ended has returned
\* normally after appending a line for its symbol.
C15_NoExceptionEscapes ==
    \A t \in Threads :
        (cyc[t].pc = "idle" /\ cyc[t].result # None)
            => /\ cyc[t].result # "RAISED"
               /\ cyc[t].logged >= 1

\* an external call has failed (no price from the broker nor the snapshot)
\* and the call has returned normally with its line
C15_Witness ==
    \E t \in Threads :
        /\ faults > 0
        /\ cyc[t].pc = "idle"
        /\ cyc[t].decision.action = "BUY"
        /\ cyc[t].last = 0
        /\ cyc[t].result = "SUGGEST_BUY"
        /\ cyc[t].logged = 1

\* the steps of run_once in their order: the sweep, the opinions and their
\* aggregation, one branch, the line
StepOrder ==
    {<<"idle", "enforce">>, <<"idle", "gather">>,
     <<"enforce", "enforce">>, <<"enforce", "gather">>,
     <<"gather", "branch">>,
     <<"branch", "sell_persist">>, <<"branch", "buy_persist">>, <<"branch", "idle">>,
     <<"sell_persist", "idle">>, <<"buy_persist", "idle">>}

\* C16: every call passes through the sweep, the opinions and aggregation,
\* one of the SELL, BUY and HOLD branches and the logging, in this order, and
\* when it ends it has appended exactly one line for its own symbol, the
\* FORCED_EXIT lines of the sweep not counted.
C16_OneRecordPerCycle ==
    /\ [][\A t \in Threads :
            Steps(t) => <<cyc[t].pc, cyc'[t].pc>> \in StepOrder]_vars
    /\ [](\A t \in Threads :
            /\ cyc[t].logged <= 1
            /\ (cyc[t].pc = "idle" /\ cyc[t].result # None) => cyc[t].logged = 1)

\* the part of C16 that holds: never two lines, and exactly one line when the
\* call returns normally
C16_OneRecordUnlessRaised ==
    \A t \in Threads :
        /\ cyc[t].logged <= 1
        /\ (cyc[t].pc = "idle" /\ cyc[t].result \notin {None, "RAISED"})
            => cyc[t].logged = 1

\* a call that swept its own symbol's expired position and then appended one
\* line of its own
C16_Witness ==
    \E t \in Threads :
        /\ cyc[t].pc = "idle"
        /\ cyc[t].result = "SELL_NO_POSITION"
        /\ cyc[t].logged = 1
        /\ Len(run_log) >= 2
        /\ run_log[Len(run_log)].symbol = cyc[t].sym
        /\ \E k \in 1..(Len(run_log) - 1) :
            /\ run_log[k].action = "FORCED_EXIT"
            /\ run_log[k].symbol = cyc[t].sym
            /\ run_log[k].when = now

\* ------------------------------------------------------------------------
\* Claims about enforce_timeboxes (checked under Spec)
\* ------------------------------------------------------------------------

\* the sweep of thread t ends in this step
SweepEnds(t) == cyc[t].pc \in {"idle", "enforce"} /\ cyc'[t].pc = "gather"

\* the exits the sweeps have issued for sym at time w
SweepExits(sym, w) ==
    {i \in 1..Len(exits) : exits[i].sweep /\ exits[i].symbol = sym /\ exits[i].when = w}

C18_NoPositionOutlivesTimebox ==
    AllIdle =>
        \A s \in Symbols :
            ((\E i \in 1..Len(exits) : exits[i].sweep /\ exits[i].symbol = s)
                /\ ~InLedger(ledger, s))
            => position_qty(s) = 0

\* a forced exit that succeeded: the row is gone and the broker holds nothing
C18_Witness ==
    /\ AllIdle
    /\ \E i \in 1..Len(exits) :
        /\ exits[i].sweep
        /\ exits[i].ok
        /\ exits[i].symbol = "AAPL"
    /\ ~InLedger(ledger, "AAPL")
    /\ position_qty("AAPL") = 0

\* C19: when FORCED_EXIT_FAILED is recorded for a symbol, the sweep leaves the
\* symbol's row in the ledger.
C19_FailedExitKeepsRow ==
    [][\A t \in Threads : SweepEnds(t) =>
            \A k \in 1..Len(run_log) :
                (run_log[k].action = "FORCED_EXIT_FAILED" /\ run_log[k].when = now
                    /\ InLedger(ledger, run_log[k].symbol))
                => InLedger(ledger', run_log[k].symbol)]_vars

\* a sweep has recorded FORCED_EXIT_FAILED
C19_Witness ==
    /\ run_log # <<>>
    /\ run_log[Len(run_log)].action = "FORCED_EXIT_FAILED"
    /\ \E t \in Threads : cyc[t].pc = "enforce"

\* ------------------------------------------------------------------------
\* Claims about the ledger rows
\* ------------------------------------------------------------------------

\* no step changes the horizon or the timebox_until of a row that stays
RowKeepsTimebox ==
    \A s \in Symbols :
        (InLedger(ledger, s) /\ InLedger(ledger', s))
        => /\ ledger'[s].horizon = ledger[s].horizon
           /\ ledger'[s].timebox_until = ledger[s].timebox_until

\* a row's timebox ends no later than its horizon's duration after the entry
TimeboxWithinHorizon ==
    \A s \in Symbols :
        (InLedger(ledger, s) /\ ledger[s].timebox_until # 0)
        => ledger[s].timebox_until <= ledger[s].entered_at + HORIZON_TIMEBOX[ledger[s].horizon]

\* C20: while a position is open its horizon and timebox_until never change,
\* whatever BUYs and merges follow and also when cycles overlap in time, and
\* timebox_until is at most the first entry plus the horizon's duration.
C20_TimeboxNeverChanges == [][RowKeepsTimebox]_vars /\ []TimeboxWithinHorizon

\* two calls that overlap have both bought a symbol that neither found in the
\* ledger, on different horizons
C20_Witness ==
    /\ cyc[1].pc = "buy_persist"
    /\ cyc[2].pc = "buy_persist"
    /\ cyc[1].sym = cyc[2].sym
    /\ ~InLedger(cyc[1].ledger, cyc[1].sym)
    /\ ~InLedger(cyc[2].ledger, cyc[2].sym)
    /\ cyc[1].decision.target_horizon # cyc[2].decision.target_horizon

\* notional = qty * entry_price in a row (quantities in hundredths of a share)
RowIsWeighted(r) == 100 * r.notional * r.entry_price.den = r.qty * r.entry_price.num

\* a BUY of thread t that adds to the row it found in the ledger, and whose
\* write of the ledger went through
Merges(t) ==
    /\ cyc[t].pc = "buy_persist"
    /\ cyc'[t].pc = "idle"
    /\ ledger' # ledger
    /\ InLedger(cyc[t].ledger, cyc[t].sym)

\* C21: a merge of (q2, p2) into a row opened with (q1, p1) gives
\* qty = q1 + q2 and notional = q1*p1 + q2*p2, and in every row of every
\* reachable ledger notional = qty * entry_price (the weighted average).
C21_MergeIsWeightedAverage ==
    /\ [](\A s \in Symbols : InLedger(ledger, s) => RowIsWeighted(ledger[s]))
    /\ [][\A t \in Threads : Merges(t) =>
            LET s == cyc[t].sym
            IN  /\ ledger'[s].qty = ledger[s].qty + cyc[t].filled_qty
                /\ ledger'[s].notional =
                      ledger[s].notional + Notional(cyc[t].filled_qty, cyc[t].avg_px)]_vars

\* 5 BTC/USD held at 50 and 5 more bought at 20: 10 at 35
C21_Witness ==
    /\ AllIdle
    /\ InLedger(ledger, "BTC/USD")
    /\ ledger["BTC/USD"].qty = Shares(10)
    /\ ledger["BTC/USD"].notional = 5 * 50 + 5 * 20
    /\ ledger["BTC/USD"].entry_price.num = 35 * ledger["BTC/USD"].entry_price.den

\* a BUY of thread t that found no row for its symbol in the ledger, and
\* whose write of the ledger went through
FirstEntry(t) ==
    /\ cyc[t].pc = "buy_persist"
    /\ cyc'[t].pc = "idle"
    /\ ledger' # ledger
    /\ ~InLedger(cyc[t].ledger, cyc[t].sym)

WriteIsOwnMutation(t, s) ==
    \/ ledger'[s] = ledger[s]
    \/ /\ cyc[t].pc = "enforce"
       /\ Expired(ledger, s)
       /\ ledger'[s] = NoRow
    \/ /\ cyc[t].pc = "sell_persist"
       /\ s = cyc[t].sym
       /\ ledger'[s] = NoRow
    \/ /\ cyc[t].pc = "buy_persist"
       /\ s = cyc[t].sym
       /\ ledger'[s].qty = ledger[s].qty + cyc[t].filled_qty
       /\ ledger'[s].notional =
             ledger[s].notional + Notional(cyc[t].filled_qty, cyc[t].avg_px)

\* C23: the ledger writes of overlapping cycles are serialized and no
\* committed update is lost: each write changes only the row its cycle
\* opens, merges or removes, on top of what the other cycles have written.
C23_NoLostUpdate ==
    [][\A t \in Threads : cyc'[t] # cyc[t] =>
            \A s \in Symbols : WriteIsOwnMutation(t, s)]_vars

\* two calls on different symbols are both about to write the ledger
C23_Witness ==
    /\ cyc[1].pc \in {"buy_persist", "sell_persist"}
    /\ cyc[2].pc \in {"buy_persist", "sell_persist"}
    /\ cyc[1].sym # cyc[2].sym
    /\ InLedger(cyc[1].ledger, cyc[1].sym)
    /\ InLedger(cyc[2].ledger, cyc[2].sym)

\* C24: of two cycles for the same symbol that overlap and both decide BUY,
\* at most one submits a buy order: the two are never both past the
\* submission of their order at the same time.
C24_OneBuyAmongOverlapping ==
    ~(/\ cyc[1].pc = "buy_persist"
      /\ cyc[2].pc = "buy_persist"
      /\ cyc[1].sym = cyc[2].sym)

\* two overlapping calls on one symbol have both decided BUY
C24_Witness ==
    /\ cyc[1].pc = "branch"
    /\ cyc[2].pc = "branch"
    /\ cyc[1].sym = cyc[2].sym
    /\ cyc[1].decision.action = "BUY"
    /\ cyc[2].decision.action = "BUY"

\* ------------------------------------------------------------------------
\* Claims about the startup reconciliation (checked under SpecStartup)
\* ------------------------------------------------------------------------

Reconciles == cyc[1].pc = "startup" /\ cyc'[1].pc = "idle"

\* C25: the reconciliation removes exactly the rows of the symbols the broker
\* does not hold (quantity <= 0): a row of a held symbol stays, also when the
\* listing call fails, and no row is added or altered.
C25_ReconcileExact ==
    [][Reconciles =>
        \A s \in Symbols :
            ledger'[s] = IF position_qty(s) <= 0 THEN NoRow ELSE ledger[s]]_vars

\* C25 when the listing call succeeds
C25_ReconcileExactWhenListed ==
    [][(Reconciles /\ faults' = faults) =>
        \A s \in Symbols :
            ledger'[s] = IF position_qty(s) <= 0 THEN NoRow ELSE ledger[s]]_vars

\* a reconciliation has dropped the row of a symbol the broker does not hold
\* and kept the row of one it holds
C25_Witness ==
    /\ cyc[1].pc = "idle"
    /\ faults = 0
    /\ position_qty("AAPL") = 0
    /\ ~InLedger(ledger, "AAPL")
    /\ position_qty("BTC/USD") > 0
    /\ InLedger(ledger, "BTC/USD")

\* ------------------------------------------------------------------------
\* Claims about a trigger's loop over its watchlist (checked under SpecJob)
\* ------------------------------------------------------------------------

\* the trigger's job function has ended
JobOver == cyc[1].pc = "idle" /\ cyc[1].todo = <<>>

\* C26: a failure in one symbol's cycle is a no-op for that symbol only: the
\* cycles of the remaining symbols of the watchlist still run, so when the
\* trigger's loop ends a cycle has been started for every symbol.
C26_RemainingSymbolsStillRun ==
    JobOver => started = Len(JobWatchlist)

\* the cycle for the first symbol failed inside a try block of run_once and
\* the cycle for the second symbol has run
C26_Witness ==
    /\ JobOver
    /\ started = Len(JobWatchlist)
    /\ \E i \in 1..Len(run_log) :
        /\ run_log[i].symbol = "AAPL"
        /\ run_log[i].action \in {"SELL_FAILED", "FORCED_EXIT_FAILED"}
    /\ cyc[1].sym = "BTC/USD"
    /\ cyc[1].logged = 1

\* ------------------------------------------------------------------------
\* Claims about the SELL and HOLD branches (checked under Spec)
\* ------------------------------------------------------------------------

\* thread t ends a cycle in which it has not yet acted on its Decision
EndsUnacted(t, action) ==
    /\ cyc[t].pc \in {"gather", "branch"}
    /\ cyc'[t].pc = "idle"
    /\ cyc'[t].decision.action = action

NothingHeld(sym) == ~InLedger(ledger, sym) /\ position_qty(sym) <= 0

\* what a cycle that only records `action` does
OnlyRecords(t, action) ==
    /\ cyc'[t].result = action
    /\ Len(run_log') = Len(run_log) + 1
    /\ run_log'[Len(run_log')].symbol = cyc[t].sym
    /\ run_log'[Len(run_log')].action = action
    /\ ledger' = ledger
    /\ broker' = broker
    /\ orders' = orders
    /\ exits' = exits

\* C27: a cycle whose decision is SELL while neither the ledger nor the
\* broker holds the symbol submits no order, leaves the ledger unchanged,
\* records SELL_NO_POSITION and raises nothing.
C27_SellWithoutPosition ==
    [][\A t \in Threads :
        (EndsUnacted(t, "SELL") /\ NothingHeld(cyc[t].sym))
        => OnlyRecords(t, "SELL_NO_POSITION")]_vars

\* C27 from the SELL branch on, once the account and the price are fetched
C27_SellBranchWithoutPosition ==
    [][\A t \in Threads :
        (EndsUnacted(t, "SELL") /\ NothingHeld(cyc[t].sym) /\ cyc[t].pc = "branch")
        => OnlyRecords(t, "SELL_NO_POSITION")]_vars

\* a SELL of AAPL has closed the position and a second SELL cycle has
\* recorded SELL_NO_POSITION
C27_Witness ==
    /\ AllIdle
    /\ cyc[1].result = "SELL_NO_POSITION"
    /\ cyc[1].sym = "AAPL"
    /\ \E i \in 1..Len(run_log) :
        /\ run_log[i].symbol = "AAPL"
        /\ run_log[i].action = "SELL"
        /\ run_log[i].reason = "order"
    /\ run_log[Len(run_log)].action = "SELL_NO_POSITION"

\* a row appears only in the ledger update of a BUY of its symbol, and the
\* broker then holds the symbol
RowCreatedByFilledBuy ==
    \A s \in Symbols :
        (~InLedger(ledger, s) /\ InLedger(ledger', s))
        => /\ \E t \in Threads :
                /\ cyc[t].pc = "buy_persist"
                /\ cyc[t].sym = s
                /\ cyc'[t].pc = "idle"
           /\ position_qty(s) > 0

\* after a cycle has recorded SELL for its symbol, and after a sweep has
\* recorded FORCED_EXIT for a symbol, the ledger has no row for it
RowRemovedAtExit ==
    \A t \in Threads :
        /\ (cyc[t].pc = "sell_persist" /\ cyc'[t].result = "SELL")
            => ~InLedger(ledger', cyc[t].sym)
        /\ (cyc[t].pc = "enforce" /\ cyc'[t].pc = "gather") =>
            \A k \in 1..Len(run_log) :
                (run_log[k].action = "FORCED_EXIT" /\ run_log[k].when = now
                    /\ run_log[k].symbol \in Symbols
                    /\ ~InLedger(cyc[t].sweep, run_log[k].symbol))
                => ~InLedger(ledger', run_log[k].symbol)

\* C28: a ledger row exists only between a filled BUY of its symbol and the
\* next SELL or forced exit: a filled BUY creates it, and after a cycle that
\* records SELL or FORCED_EXIT for the symbol the ledger has no row for it.
C28_RowOnlyWhileOpen == [][RowCreatedByFilledBuy /\ RowRemovedAtExit]_vars

\* C28, the removal: no row is left after a recorded SELL or FORCED_EXIT
C28_RowGoneAfterExit == [][RowRemovedAtExit]_vars

\* a BUY has opened a row after a forced exit removed the earlier one
C28_Witness ==
    /\ AllIdle
    /\ \E k \in 1..Len(run_log) :
        /\ run_log[k].action = "FORCED_EXIT"
        /\ run_log[k].symbol = "AAPL"
        /\ \E j \in (k + 1)..Len(run_log) :
            /\ run_log[j].symbol = "AAPL"
            /\ run_log[j].action = "BUY"
    /\ InLedger(ledger, "AAPL")
    /\ ledger["AAPL"].entered_at = now
    /\ position_qty("AAPL") = ledger["AAPL"].qty

\* C29: a cycle whose decision is HOLD submits no order, leaves the ledger
\* as its sweep left it, and appends one HOLD record.
C29_HoldOnlyRecords ==
    [][\A t \in Threads : EndsUnacted(t, "HOLD") => OnlyRecords(t, "HOLD")]_vars

\* C29 from the HOLD branch on, once the account and the price are fetched
C29_HoldBranchOnlyRecords ==
    [][\A t \in Threads :
        (EndsUnacted(t, "HOLD") /\ cyc[t].pc = "branch") => OnlyRecords(t, "HOLD")]_vars

\* a HOLD cycle has returned after its sweep removed an expired row
C29_Witness ==
    /\ AllIdle
    /\ cyc[1].result = "HOLD"
    /\ cyc[1].logged = 1
    /\ run_log[Len(run_log)].action = "HOLD"
    /\ \E k \in 1..Len(run_log) :
        run_log[k].action = "FORCED_EXIT" /\ run_log[k].when = now

\* ------------------------------------------------------------------------
\* Claims about the fills of a BUY (checked under Spec)
\* ------------------------------------------------------------------------

\* thread t has its order accepted and _await_fills returns
OrderAccepted(t) == cyc[t].pc = "branch" /\ cyc'[t].pc = "buy_persist"

\* what the broker has filled of the order when _await_fills returns
ConfirmedFill(t) ==
    broker'[_to_broker_symbol(cyc[t].sym)] - broker[_to_broker_symbol(cyc[t].sym)]

\* the BUY of thread t adds the quantity _await_fills returned to the ledger
\* (when its write of the ledger went through)
AddsReturnedQty(t) ==
    (cyc[t].pc = "buy_persist" /\ cyc'[t].pc = "idle" /\ ledger' # ledger)
    => ledger'[cyc[t].sym].qty = ledger[cyc[t].sym].qty + cyc[t].filled_qty

\* C30: the quantity a BUY adds to the ledger is the quantity the broker
\* confirmed as filled when the status was confirmed within the timeout, and
\* the requested quantity only when it was not; an order confirmed as
\* canceled with nothing filled adds nothing.
C30_LedgerAddsConfirmedFill ==
    [][\A t \in Threads :
        /\ AddsReturnedQty(t)
        /\ OrderAccepted(t) =>
            LET o == orders'[Len(orders')]
            IN  /\ o.status \in {"filled", "partial", "canceled"}
                    => cyc'[t].filled_qty = ConfirmedFill(t)
                /\ o.status = "pending" => cyc'[t].filled_qty = o.qty]_vars

\* C30 for the orders of which something was filled, and for those without
\* a final status
C30_LedgerAddsFillWhenFilled ==
    [][\A t \in Threads :
        /\ AddsReturnedQty(t)
        /\ OrderAccepted(t) =>
            LET o == orders'[Len(orders')]
            IN  /\ o.status \in {"filled", "partial"}
                    => cyc'[t].filled_qty = ConfirmedFill(t)
                /\ o.status = "pending" => cyc'[t].filled_qty = o.qty]_vars

\* a partial fill of one share out of two has been added to the 18 held
C30_Witness ==
    /\ AllIdle
    /\ orders[Len(orders)].status = "partial"
    /\ orders[Len(orders)].symbol = "AAPL"
    /\ orders[Len(orders)].qty = Shares(2)
    /\ InLedger(ledger, "AAPL")
    /\ ledger["AAPL"].qty = Shares(19)
    /\ position_qty("AAPL") = Shares(19)

\* ------------------------------------------------------------------------
\* Claims about sweeps that overlap (checked under SpecOverlap)
\* ------------------------------------------------------------------------

\* the FORCED_EXIT lines written for sym at time w
ForcedExitLines(sym, w) ==
    {k \in 1..Len(run_log) :
        /\ run_log[k].symbol = sym
        /\ run_log[k].when = w
        /\ run_log[k].action = "FORCED_EXIT"}

\* C31: when two cycles overlap and both sweep while the same expired row is
\* in the ledger, exactly one forced exit is issued and exactly one
\* FORCED_EXIT record is written for that row: never two of either.
C31_OneForcedExitPerRow ==
    \A s \in Symbols :
        /\ Cardinality(SweepExits(s, now)) <= 1
        /\ Cardinality(ForcedExitLines(s, now)) <= 1

\* two sweeps that overlap have both read the ledger with the expired row
C31_Witness ==
    /\ cyc[1].pc = "enforce"
    /\ cyc[2].pc = "enforce"
    /\ Expired(cyc[1].sweep, "BTC/USD")
    /\ Expired(cyc[2].sweep, "BTC/USD")

\* Claims about the run log as the only throttle state (checked under Spec)
IsPrefix(a, b) ==
    /\ Len(a) <= Len(b)
    /\ SubSeq(b, 1, Len(a)) = a

\* the verdict of the two throttles for sym, from the log and the time alone
ThrottleVerdict(log, sym, t) ==
    IF hit_daily_buy_limit(runs_for_symbol(log, sym), t) THEN "daily_limit"
    ELSE IF too_soon_since_last_buy(runs_for_symbol(log, sym), t) THEN "cooldown"
    ELSE None

\* thread t leaves the BUY branch in this step, past the horizon and price
\* guards
ThrottlesDecide(t) ==
    /\ cyc[t].pc = "branch"
    /\ cyc'[t].pc # "branch"
    /\ cyc[t].decision.action = "BUY"
    /\ cyc[t].decision.target_horizon \in Horizons
    /\ cyc[t].last > 0

ThrottleStops(t) ==
    /\ cyc'[t].result = "SUGGEST_BUY"
    /\ Len(run_log') = Len(run_log) + 1
    /\ run_log'[Len(run_log')].reason \in {"daily_limit", "cooldown"}

\* C32: the run log is append-only: in every step of a cycle or a sweep the
\* log before the step is a prefix of the log after it (no record is
\* changed, reordered or removed), and the verdict of the throttles in a BUY
\* call is the one computed from this log and the current time alone.
C32_LogAppendOnly ==
    [][/\ IsPrefix(run_log, run_log')
       /\ \A t \in Threads :
            ThrottlesDecide(t) =>
                LET verdict == ThrottleVerdict(run_log, cyc[t].sym, now)
                IN  IF verdict = None
                    THEN ~ThrottleStops(t)
                    ELSE /\ ThrottleStops(t)
                         /\ run_log'[Len(run_log')].reason = verdict]_vars

\* a log that has grown by a BUY line and then by the line of a call the
\* cooldown stopped, with the line of the start still first
C32_Witness ==
    /\ Len(run_log) >= Len(LogAtStart) + 2
    /\ IsPrefix(LogAtStart, run_log)
    /\ run_log[Len(run_log) - 1].action = "BUY"
    /\ run_log[Len(run_log)].action = "SUGGEST_BUY"
    /\ run_log[Len(run_log)].reason = "cooldown"

\* Claims about the shape of the Decision (checked under SpecDebate)
WeightsSumToOne == weights["short"] + weights["mid"] + weights["long"] = 100

OneOpinionPerHorizon ==
    /\ \A h \in Horizons : Cardinality(VotesFor(h)) <= 1
    /\ \A i \in 1..Len(votes) : votes[i].confidence \in 0..100

\* C33: every Decision of horizon_decide is well formed: the action is HOLD
\* exactly when target_horizon is None, and otherwise target_horizon is one of
\* short, mid, long; with at most one opinion per horizon, confidences in
\* [0,1] and weights summing to 1 the confidence lies in [0,1], and the
\* confidence of a HOLD is max(|best_score|, |worst_score|).
C33_DecisionWellFormed ==
    Returned =>
        /\ decision.action \in {"BUY", "SELL", "HOLD"}
        /\ decision.action = "HOLD" <=> decision.target_horizon = None
        /\ decision.action # "HOLD" => decision.target_horizon \in Horizons
        /\ (WeightsSumToOne /\ OneOpinionPerHorizon) =>
            /\ decision.confidence \in 0..1000
            /\ decision.action = "HOLD" =>
                10 * decision.confidence = Max2(Abs(LargestScore), Abs(SmallestScore))

\* a HOLD between the thresholds: short BUY .8 against mid SELL .9 and long
\* HOLD, confidence .32 = max(|.32|, |-.315|)
C33_Witness ==
    /\ HasVotes("BUY", 80, "SELL", 90, "HOLD", 100)
    /\ weights = DefaultWeights /\ enter_th = 3500 /\ exit_th = 4500
    /\ decision.action = "HOLD"
    /\ decision.target_horizon = None
    /\ decision.confidence = 320

NoOpinion(side) == \A i \in 1..Len(votes) : votes[i].decision # side

\* C35: horizon_decide never returns SELL when no opinion has side SELL (all
\* signed scores >= 0) and never returns BUY when no opinion has side BUY (all
\* signed scores <= 0), under every configuration with positive thresholds.
C35_NoActionWithoutOpinion ==
    (Returned /\ enter_th > 0 /\ exit_th > 0) =>
        /\ NoOpinion("SELL") => decision.action # "SELL"
        /\ NoOpinion("BUY") => decision.action # "BUY"

\* C35, the BUY half: without a BUY opinion the action is never BUY.
C35_NoBuyWithoutBuyOpinion ==
    (Returned /\ enter_th > 0 /\ exit_th > 0 /\ NoOpinion("BUY")) =>
        decision.action # "BUY"

\* three BUY opinions (.8, .8, .8) under enter_th .9 and exit_th .2: scores
\* .32/.28/.20, net .80 < .9, and the smallest score .20 reaches exit_th
C35_Witness ==
    /\ HasVotes("BUY", 80, "BUY", 80, "BUY", 80)
    /\ weights = DefaultWeights /\ enter_th = 9000 /\ exit_th = 2000
    /\ decision.action = "SELL"
    /\ decision.target_horizon = "long"
    /\ decision.confidence = 200

\* Claims about a buy whose ledger update was lost (checked under SpecUnheld)
\* the filled buy orders for sym whose quantity the broker still holds while
\* the ledger has no row for sym
LostEntries(sym) ==
    {i \in 1..Len(orders) :
        /\ orders[i].symbol = sym
        /\ orders[i].status = "filled"
        /\ position_qty(sym) > 0
        /\ ~InLedger(ledger, sym)}

\* C34: after a run interrupted between the buy order and the ledger update
\* (the broker holds the symbol, the ledger has no entry) the holding is still
\* exited: a later SELL call closes the broker position rather than recording
\* SELL_NO_POSITION, and a sweep that ends once the timebox of the order's
\* horizon has elapsed leaves nothing of it at the broker.
C34_LostEntryStillExited ==
    [][\A t \in Threads : \A s \in Symbols :
        /\ (/\ LostEntries(s) # {}
            /\ cyc[t].pc = "branch"
            /\ cyc'[t].pc # "branch"
            /\ cyc[t].sym = s
            /\ cyc[t].decision.action = "SELL")
                => cyc'[t].result # "SELL_NO_POSITION"
        /\ (/\ SweepEnds(t)
            /\ \E i \in LostEntries(s) :
                    now >= orders[i].when + HORIZON_TIMEBOX[orders[i].horizon])
                => position_qty(s)' = 0]_vars

\* C34, the SELL half: with the symbol held at the broker and no row in the
\* ledger, a SELL call does not end in SELL_NO_POSITION.
C34_LostEntrySoldOnSell ==
    [][\A t \in Threads : \A s \in Symbols :
        (/\ LostEntries(s) # {}
         /\ cyc[t].pc = "branch"
         /\ cyc'[t].pc # "branch"
         /\ cyc[t].sym = s
         /\ cyc[t].decision.action = "SELL")
            => cyc'[t].result # "SELL_NO_POSITION"]_vars

\* a call a day after the buy of BTC/USD on the short horizon whose ledger
\* write failed: its sweep is over, the broker still holds the shares
C34_Witness ==
    /\ \E i \in LostEntries("BTC/USD") :
            /\ orders[i].horizon = "short"
            /\ now >= orders[i].when + HORIZON_TIMEBOX["short"]
    /\ cyc[1].pc = "gather"
    /\ \A k \in 1..Len(exits) : exits[k].symbol # "BTC/USD"

\* Claims about an accepted buy order and its record (checked under Spec)
\* thread t ends, in this step, a call whose buy order the broker accepted
EndsAcceptedBuy(t) ==
    /\ cyc[t].pc = "buy_persist"
    /\ cyc'[t].pc = "idle"

RecordsBuy(t) ==
    /\ run_log' = Append(run_log, Line(now, cyc[t].sym, "BUY", None, 1))
    /\ InLedger(ledger', cyc[t].sym)
    /\ ledger'[cyc[t].sym].qty = held_qty_ledger(ledger, cyc[t].sym) + cyc[t].filled_qty

\* C36: whenever a call submits a buy order the broker accepts, the same call
\* appends a BUY line and updates the ledger, whatever later call fails (the
\* ledger write, the account fetch for the line): no accepted buy order
\* stays invisible to the cooldown and the daily limit.
C36_AcceptedBuyIsRecorded ==
    [][\A t \in Threads : EndsAcceptedBuy(t) => RecordsBuy(t)]_vars

\* C36, without a failure: when no call fails after the order was accepted,
\* the call appends the BUY line and adds the quantity to the ledger.
C36_AcceptedBuyIsRecordedWithoutFailure ==
    [][\A t \in Threads :
        (EndsAcceptedBuy(t) /\ faults' = faults) => RecordsBuy(t)]_vars

\* a call that ended with the exception after its order was filled: the
\* order is in orders, the log has no BUY line of that minute for the symbol
C36_Witness ==
    \E t \in Threads :
        /\ cyc[t].pc = "idle"
        /\ cyc[t].result = "RAISED"
        /\ cyc[t].order_id # None
        /\ \E i \in 1..Len(orders) :
            /\ orders[i].symbol = cyc[t].sym
            /\ orders[i].when = now
            /\ orders[i].status = "filled"
        /\ \A k \in 1..Len(run_log) :
            ~(/\ run_log[k].symbol = cyc[t].sym
              /\ run_log[k].when = now
              /\ run_log[k].action = "BUY")

\* Claims about the ledger against the broker (checked under Spec)
\* no call to the broker, the price sources or the files has failed, and
\* every order was filled in full and confirmed
NothingFailed ==
    /\ faults = 0
    /\ \A i \in 1..Len(orders) : orders[i].status = "filled"

\* C37: with the calls one after the other, no failure of an external call
\* and every order filled in full and confirmed, the ledger and the broker
\* agree after every cycle: a row exists exactly for the symbols the broker
\* holds, and its qty is the broker's quantity.
C37_LedgerAgreesWithBroker ==
    (~overlap /\ NothingFailed /\ AllIdle) =>
        \A s \in Symbols :
            /\ InLedger(ledger, s) <=> position_qty(s) > 0
            /\ held_qty_ledger(ledger, s) = position_qty(s)

\* after two cycles without a failure: BTC/USD sold in the first and bought
\* again in the second, AAPL untouched
C37_Witness ==
    /\ NothingFailed /\ AllIdle /\ ~overlap
    /\ started = 2
    /\ Len(exits) = 1 /\ exits[1].symbol = "BTC/USD" /\ exits[1].ok
    /\ Len(orders) = 2 /\ orders[2].symbol = "BTC/USD"
    /\ InLedger(ledger, "BTC/USD")
    /\ ledger["BTC/USD"].qty = position_qty("BTC/USD")
    /\ ledger["AAPL"].qty = position_qty("AAPL")

====
